---- MODULE Spec2Model ----
(***************************************************************************)
(* A model of utils.py of alpineinsights/pilatusAPI: the transcript        *)
(* resolver (TranscriptProcessor.process_transcript, QuartrAPI             *)
(* .get_document), the text formatter (format_transcript_text), the        *)
(* document renderer (create_pdf) and the storage-key builders             *)
(* (create_filename of both storage handlers).                             *)
(*                                                                         *)
(* Python strings are sequences of one-character strings, so that          *)
(* replace, split, strip, lower and slicing are computed as str computes   *)
(* them.  URLs are sequences of tokens: "/" and "?" are tokens of their    *)
(* own, a host name is one token, a decimal digit is one token.            *)
(***************************************************************************)
EXTENDS Integers, Sequences, FiniteSets, TLC

VARIABLES
    pc,                  \* position of the running call
    transcript_url,      \* process_transcript argument
    transcripts,         \* process_transcript argument (the event's dict)
    raw_transcript_url,  \* process_transcript local
    requests,            \* every session.get issued so far: [url, headers]
    responses,           \* what each of those requests was answered with
    result,              \* outcome of process_transcript / get_document
    doc_url,             \* get_document argument
    text,                \* format_transcript_text argument
    formatted_text,      \* format_transcript_text return value
    reformatted_text,    \* format_transcript_text applied to its own output
    company_name,        \* create_pdf / create_filename argument
    event_title,         \* create_pdf / create_filename argument
    event_date,          \* create_pdf / create_filename argument
    transcript_text,     \* create_pdf argument
    paragraphs,          \* create_pdf local: paragraphs still to lay out
    story,               \* create_pdf local: flowables handed to the layout
    pdf_data,            \* create_pdf outcome
    logged,              \* create_pdf: the logger.error calls made so far
    handler,             \* which storage handler builds the key
    doc_type,            \* create_filename argument
    original_filename,   \* create_filename argument
    filename             \* create_filename return value

transcriptVars == <<transcript_url, transcripts, raw_transcript_url, requests,
                    responses, result, doc_url>>
formatVars == <<text, formatted_text, reformatted_text>>
eventVars == <<company_name, event_title, event_date>>
pdfVars == <<transcript_text, paragraphs, story, pdf_data, logged>>
keyVars == <<handler, doc_type, original_filename, filename>>
vars == <<pc, transcriptVars, formatVars, eventVars, pdfVars, keyVars>>

(***************************************************************************)
(* Bounds of the model.                                                    *)
(***************************************************************************)
MaxLen == 5        \* longest text given to format_transcript_text
MaxBody == 1       \* longest text carried by an HTTP response
MaxIdLen == 2      \* longest second-to-last segment of the page URL
MaxArg == 1        \* longest header argument given to create_pdf
MaxPdfText == 4    \* longest transcript_text given to create_pdf
MaxName == 1       \* longest company_name / event_title of a storage key
MaxFile == 3       \* longest original_filename of a storage key

(***************************************************************************)
(* Python str operations.                                                  *)
(***************************************************************************)
BoundedSeq(S, n) == UNION {[1..k -> S] : k \in 0..n}

\* the characters str.split() and str.strip() treat as whitespace
Whitespace == {" ", "\n", "\t"}

\* s[from:] for 1-based from
Drop(s, from) == SubSeq(s, from, Len(s))

RECURSIVE Replace(_, _, _)
\* s.replace(old, new): leftmost non-overlapping occurrences, old non-empty
Replace(s, old, new) ==
    IF Len(s) < Len(old) THEN s
    ELSE IF SubSeq(s, 1, Len(old)) = old
         THEN new \o Replace(Drop(s, Len(old) + 1), old, new)
         ELSE <<Head(s)>> \o Replace(Tail(s), old, new)

RECURSIVE LStrip(_)
LStrip(s) == IF s # <<>> /\ Head(s) \in Whitespace THEN LStrip(Tail(s)) ELSE s

RECURSIVE RStrip(_)
RStrip(s) ==
    IF s # <<>> /\ s[Len(s)] \in Whitespace
    THEN RStrip(SubSeq(s, 1, Len(s) - 1)) ELSE s

\* s.strip()
Strip(s) == RStrip(LStrip(s))

RECURSIVE SplitAcc(_, _, _)
SplitAcc(s, sep, cur) ==
    IF Len(s) < Len(sep) THEN <<cur \o s>>
    ELSE IF SubSeq(s, 1, Len(sep)) = sep
         THEN <<cur>> \o SplitAcc(Drop(s, Len(sep) + 1), sep, <<>>)
         ELSE SplitAcc(Tail(s), sep, Append(cur, Head(s)))

\* s.split(sep) for a non-empty sep: leftmost matches, empty pieces kept
Split(s, sep) == SplitAcc(s, sep, <<>>)

RECURSIVE SplitWsAcc(_, _)
SplitWsAcc(s, cur) ==
    IF s = <<>> THEN (IF cur = <<>> THEN <<>> ELSE <<cur>>)
    ELSE IF Head(s) \in Whitespace
         THEN (IF cur = <<>> THEN <<>> ELSE <<cur>>) \o SplitWsAcc(Tail(s), <<>>)
         ELSE SplitWsAcc(Tail(s), Append(cur, Head(s)))

\* s.split(): the maximal runs of non-whitespace
SplitWs(s) == SplitWsAcc(s, <<>>)

RECURSIVE Join(_, _)
\* sep.join(parts)
Join(parts, sep) ==
    IF parts = <<>> THEN <<>>
    ELSE IF Len(parts) = 1 THEN parts[1]
         ELSE parts[1] \o sep \o Join(Tail(parts), sep)

\* [f(x) for x in xs if x]-style filters
SelectNonEmpty(xs) == SelectSeq(xs, LAMBDA x : x # <<>>)

(***************************************************************************)
(* TranscriptProcessor.format_transcript_text                              *)
(***************************************************************************)
\* [s.strip() for s in text.split('.') if s.strip()]
Sentences(t) ==
    LET pieces == Split(t, <<".">>)
    IN  SelectNonEmpty([i \in 1..Len(pieces) |-> Strip(pieces[i])])

\* format_transcript_text keeping the empty segments of the split
format_keep_empty(t) ==
    LET unescaped == Replace(t, <<"\\", "n">>, <<"\n">>)
        collapsed == Join(SplitWs(unescaped), <<" ">>)
        pieces == Split(collapsed, <<".">>)
    IN  Join([i \in 1..Len(pieces) |-> Strip(pieces[i])], <<".", "\n", "\n">>)
            \o <<".">>

\* format_transcript_text without the strip of each segment
format_no_strip(t) ==
    LET unescaped == Replace(t, <<"\\", "n">>, <<"\n">>)
        collapsed == Join(SplitWs(unescaped), <<" ">>)
        pieces == Split(collapsed, <<".">>)
    IN  Join(SelectSeq(pieces, LAMBDA x : Strip(x) # <<>>), <<".", "\n", "\n">>)
            \o <<".">>

format_transcript_text(t) ==
    LET unescaped == Replace(t, <<"\\", "n">>, <<"\n">>)
        collapsed == Join(SplitWs(unescaped), <<" ">>)
    IN  Join(Sentences(collapsed), <<".", "\n", "\n">>) \o <<".">>

FormatAlphabet == {"a", "n", ".", " ", "\n", "\\"}

Idle == <<>>

\* the variables of the components a specification does not run
IdleTranscript ==
    /\ transcript_url = Idle /\ transcripts = Idle /\ raw_transcript_url = Idle
    /\ requests = Idle /\ responses = Idle /\ result = Idle
    /\ doc_url = Idle
IdleFormat == text = Idle /\ formatted_text = Idle /\ reformatted_text = Idle
IdleEvent == company_name = Idle /\ event_title = Idle /\ event_date = Idle
IdlePdf ==
    /\ transcript_text = Idle /\ paragraphs = Idle /\ story = Idle
    /\ pdf_data = Idle /\ logged = Idle
IdleKey ==
    /\ handler = Idle /\ doc_type = Idle /\ original_filename = Idle
    /\ filename = Idle

InitFormat ==
    /\ pc = "format"
    /\ text \in BoundedSeq(FormatAlphabet, MaxLen)
    /\ formatted_text = Idle
    /\ reformatted_text = Idle
    /\ IdleTranscript /\ IdleEvent /\ IdlePdf /\ IdleKey

\* one call of format_transcript_text
Format ==
    /\ pc = "format"
    /\ formatted_text' = format_transcript_text(text)
    /\ pc' = "formatted"
    /\ UNCHANGED <<text, reformatted_text>>
    /\ UNCHANGED <<transcriptVars, eventVars, pdfVars, keyVars>>

\* a second call, on the first call's return value
Reformat ==
    /\ pc = "formatted"
    /\ reformatted_text' = format_transcript_text(formatted_text)
    /\ pc' = "reformatted"
    /\ UNCHANGED <<text, formatted_text>>
    /\ UNCHANGED <<transcriptVars, eventVars, pdfVars, keyVars>>

NextFormat == Format \/ Reformat

SpecFormat == InitFormat /\ [][NextFormat]_vars

(***************************************************************************)
(* HTTP: URLs, requests and responses.                                     *)
(***************************************************************************)
ApiHost == "api.quartr.com"
AppHost == "app.quartr.com"
ApiKeyHeader == "X-Api-Key"

\* needle in url, for a needle that is one token of the URL
Contains(url, needle) == \E i \in 1..Len(url) : url[i] = needle

\* the host a request to url goes to
Host(url) ==
    IF Len(url) >= 4 /\ SubSeq(url, 1, 3) = <<"https:", "/", "/">>
    THEN url[4] ELSE ""

Url(host, rest) == <<"https:", "/", "/", host>> \o rest

\* dict values that may be missing: <<>> is a missing key, <<v>> the value v
Missing == <<>>
Some(v) == <<v>>

\* d.get('text', '') on an optional string
GetOrEmpty(opt) == IF opt = Missing THEN <<>> ELSE opt[1]

\* 'k' in d and d['k']
Truthy(opt) == opt # Missing /\ opt[1] # <<>>

BodyTexts == BoundedSeq({"a", "."}, MaxBody)
OptTexts == {Missing} \cup {Some(t) : t \in BodyTexts}

\* the JSON documents a response may carry
JsonDocs ==
    [transcript : {Missing} \cup {Some([text |-> t]) : t \in OptTexts},
     text : OptTexts]

\* "json": the body parses as JSON; "text": response.json() raises
\* json.JSONDecodeError and response.text() gives raw; "broken": reading
\* the body raises another exception
Bodies ==
    {[kind |-> "json", data |-> d, raw |-> <<>>] : d \in JsonDocs}
    \cup {[kind |-> "text", data |-> <<>>, raw |-> t] : t \in BodyTexts}
    \cup {[kind |-> "broken", data |-> <<>>, raw |-> <<>>]}

\* session.get raised before any response
TransportError == [status |-> 0, body |-> [kind |-> "broken", data |-> <<>>, raw |-> <<>>]]

Responses == [status : {200, 404}, body : Bodies] \cup {TransportError}

Return(v) == [kind |-> "return", value |-> v]
Raise(e) == [kind |-> "raise", value |-> <<e>>]
None == <<"None">>

(***************************************************************************)
(* TranscriptProcessor.process_transcript                                  *)
(***************************************************************************)
\* f"https://api.quartr.com/public/v1/transcripts/document/{document_id}"
ApiDocumentUrl(document_id) ==
    Url(ApiHost, <<"/", "public", "/", "v1", "/", "transcripts", "/",
                   "document", "/">>) \o document_id

Digits == {"0", "1", "2", "3", "4", "5", "6", "7", "8", "9"}

\* str.isdigit()
IsDigit(s) == s # <<>> /\ \A i \in 1..Len(s) : s[i] \in Digits

\* transcripts.get('liveTranscripts', {})
LiveTranscripts(t) ==
    IF t.liveTranscripts = Missing
    THEN [finishedLiveTranscriptUrl |-> Missing]
    ELSE t.liveTranscripts[1]

\* the live transcript URL taken before the direct one
SelectRawUrlLiveFirst(t) ==
    IF Truthy(LiveTranscripts(t).finishedLiveTranscriptUrl)
    THEN LiveTranscripts(t).finishedLiveTranscriptUrl[1]
    ELSE IF Truthy(t.transcriptUrl) THEN t.transcriptUrl[1]
    ELSE <<>>

\* the if/elif over the transcripts object; <<>> stands for None
SelectRawUrl(t) ==
    IF Truthy(t.transcriptUrl) THEN t.transcriptUrl[1]
    ELSE IF Truthy(LiveTranscripts(t).finishedLiveTranscriptUrl)
    THEN LiveTranscripts(t).finishedLiveTranscriptUrl[1]
    ELSE <<>>

\* the except clause of the outer try: any exception becomes ''
OuterTry(outcome) ==
    IF outcome.kind = "raise" THEN Return(<<>>) ELSE outcome

\* the headers of the fetch of a raw transcript URL
RawHeaders(url) == IF Contains(url, ApiHost) THEN {ApiKeyHeader} ELSE {}

\* the body of `async with session.get(...)` for the derived API URL;
\* "fall" is control leaving the if-block without a return
ApiResponseOutcome(r) ==
    IF r = TransportError THEN Raise("ClientError")
    ELSE IF r.status # 200 THEN [kind |-> "fall", value |-> <<>>]
    ELSE IF r.body.kind = "text" THEN Raise("JSONDecodeError")
    ELSE IF r.body.kind = "broken" THEN Raise("ClientPayloadError")
    ELSE IF r.body.data.transcript # Missing
            /\ GetOrEmpty(r.body.data.transcript[1].text) # <<>>
         THEN Return(format_transcript_text(
                         GetOrEmpty(r.body.data.transcript[1].text)))
         ELSE [kind |-> "fall", value |-> <<>>]

\* the inner try of the raw fetch: every exception is logged and control
\* falls to the final return ''
RawResponseOutcome(r) ==
    IF r = TransportError THEN Return(<<>>)
    ELSE IF r.status # 200 THEN Return(<<>>)
    ELSE IF r.body.kind = "broken" THEN Return(<<>>)
    ELSE IF r.body.kind = "text"
         THEN (IF r.body.raw # <<>>
               THEN Return(format_transcript_text(r.body.raw))
               ELSE Return(<<>>))
    ELSE IF r.body.data.transcript # Missing
         THEN (IF GetOrEmpty(r.body.data.transcript[1].text) # <<>>
               THEN Return(format_transcript_text(
                               GetOrEmpty(r.body.data.transcript[1].text)))
               ELSE Return(<<>>))
    ELSE IF r.body.data.text # Missing
         THEN Return(format_transcript_text(r.body.data.text[1]))
         ELSE Return(<<>>)

CdnUrl == Url("cdn.example.com", <<"/", "t.json">>)
CdnUrlNamingApi ==
    Url("cdn.example.com", <<"/", "t.json", "?", "ref=", "api.quartr.com">>)
ApiFileUrl == Url(ApiHost, <<"/", "public", "/", "v1", "/", "t.json">>)
LiveUrl == Url("live.example.com", <<"/", "l.json">>)
LiveApiUrl == Url(ApiHost, <<"/", "public", "/", "v1", "/", "l.json">>)

\* the transcripts objects of an event
TranscriptsObjects ==
    [transcriptUrl :
        {Missing, Some(<<>>), Some(CdnUrl), Some(CdnUrlNamingApi),
         Some(ApiFileUrl)},
     liveTranscripts :
        {Missing} \cup
        {Some([finishedLiveTranscriptUrl |-> u]) :
            u \in {Missing, Some(<<>>), Some(LiveUrl), Some(LiveApiUrl)}}]

\* the transcript page URLs of an event: .../transcripts/<segment>/view
PageUrls ==
    {<<>>, <<AppHost>>,
     Url("web.example.com", <<"/", "go", "?", "to=", AppHost, "/", "7", "/", "view">>)}
    \cup {Url(h, <<"/", "transcripts", "/">> \o seg \o <<"/", "view">>) :
            h \in {AppHost, "web.example.com"},
            seg \in BoundedSeq({"7", "x"}, MaxIdLen)}

InitTranscript ==
    /\ pc \in {"resolve", "get_document"}
    /\ IF pc = "resolve"
       THEN /\ transcript_url \in PageUrls
            /\ transcripts \in TranscriptsObjects
            /\ doc_url = Idle
       ELSE /\ transcript_url = Idle
            /\ transcripts = Idle
            /\ doc_url \in {CdnUrl, CdnUrlNamingApi, ApiFileUrl}
    /\ raw_transcript_url = <<>>
    /\ requests = <<>>
    /\ responses = <<>>
    /\ result = Idle
    /\ IdleFormat /\ IdleEvent /\ IdlePdf /\ IdleKey

\* lines 256-269: choose the URL to fetch
Resolve ==
    /\ pc = "resolve"
    /\ LET raw == SelectRawUrl(transcripts)
           segs == Split(transcript_url, <<"/">>)
       IN  IF raw = <<>> /\ transcript_url # <<>>
              /\ Contains(transcript_url, AppHost)
           THEN IF Len(segs) < 2
                THEN /\ result' = OuterTry(Raise("IndexError"))
                     /\ pc' = "done"
                     /\ UNCHANGED raw_transcript_url
                ELSE IF IsDigit(segs[Len(segs) - 1])
                THEN /\ raw_transcript_url' = ApiDocumentUrl(segs[Len(segs) - 1])
                     /\ pc' = "api_get"
                     /\ UNCHANGED result
                ELSE /\ raw_transcript_url' = raw
                     /\ result' = Return(<<>>)
                     /\ pc' = "done"
           ELSE /\ raw_transcript_url' = raw
                /\ IF raw # <<>>
                   THEN pc' = "raw_get" /\ UNCHANGED result
                   ELSE pc' = "done" /\ result' = Return(<<>>)
    /\ UNCHANGED <<transcript_url, transcripts, requests, responses, doc_url>>
    /\ UNCHANGED <<formatVars, eventVars, pdfVars, keyVars>>

\* lines 270-280: the request to the derived API endpoint, and its answer
ApiFetch ==
    /\ pc = "api_get"
    /\ \E r \in Responses :
        LET outcome == OuterTry(ApiResponseOutcome(r))
        IN  /\ requests' = Append(requests,
                    [url |-> raw_transcript_url, headers |-> {ApiKeyHeader}])
            /\ responses' = Append(responses, r)
            /\ IF outcome.kind = "return"
               THEN pc' = "done" /\ result' = outcome
               ELSE pc' = "raw_get" /\ UNCHANGED result
    /\ UNCHANGED <<transcript_url, transcripts, raw_transcript_url, doc_url>>
    /\ UNCHANGED <<formatVars, eventVars, pdfVars, keyVars>>

\* lines 283-317: the request to raw_transcript_url, and its answer
RawFetch ==
    /\ pc = "raw_get"
    /\ \E r \in Responses :
        /\ requests' = Append(requests,
                [url |-> raw_transcript_url,
                 headers |-> RawHeaders(raw_transcript_url)])
        /\ responses' = Append(responses, r)
        /\ result' = OuterTry(RawResponseOutcome(r))
    /\ pc' = "done"
    /\ UNCHANGED <<transcript_url, transcripts, raw_transcript_url, doc_url>>
    /\ UNCHANGED <<formatVars, eventVars, pdfVars, keyVars>>

(***************************************************************************)
(* QuartrAPI.get_document                                                  *)
(***************************************************************************)
GetDocumentOutcome(r) ==
    IF r = TransportError THEN Return(None)
    ELSE IF r.status # 200 THEN Return(None)
    ELSE IF r.body.kind = "broken" THEN Return(None)
    ELSE Return(<<r.body>>)

GetDocument ==
    /\ pc = "get_document"
    /\ \E r \in Responses :
        /\ requests' = Append(requests, [url |-> doc_url, headers |-> {}])
        /\ responses' = Append(responses, r)
        /\ result' = GetDocumentOutcome(r)
    /\ pc' = "document_done"
    /\ UNCHANGED <<transcript_url, transcripts, raw_transcript_url, doc_url>>
    /\ UNCHANGED <<formatVars, eventVars, pdfVars, keyVars>>

NextTranscript == Resolve \/ ApiFetch \/ RawFetch \/ GetDocument

SpecTranscript == InitTranscript /\ [][NextTranscript]_vars

(***************************************************************************)
(* TranscriptProcessor.create_pdf                                          *)
(***************************************************************************)
\* .replace('&', '&amp;').replace('<', '&lt;').replace('>', '&gt;')
Escape(s) ==
    Replace(Replace(Replace(s, <<"&">>, <<"&", "a", "m", "p", ";">>),
                    <<"<">>, <<"&", "l", "t", ";">>),
            <<">">>, <<"&", "g", "t", ";">>)

\* the fixed parts of the header template, each one token
HeaderOpen == "<para alignment=\"center\"><b>"
HeaderEvent == "</b><br/><br/>Event: "
HeaderDate == "<br/>Date: "
HeaderClose == "</para>"

\* the f-string of the header
HeaderText(company, title, date) ==
    <<HeaderOpen>> \o Escape(company) \o <<HeaderEvent>> \o Escape(title)
        \o <<HeaderDate>> \o date \o <<HeaderClose>>

Paragraph(markup, style) ==
    [type |-> "Paragraph", text |-> markup, style |-> style, height |-> 0]
Spacer(h) ==
    [type |-> "Spacer", text |-> <<>>, style |-> "", height |-> h]

\* a logger.error call of create_pdf: which one, and the paragraph it names
LogEntry(what, markup) == [what |-> what, text |-> markup]

MarkupAlphabet == {"a", "&", "<", ">"}
PdfTextAlphabet == {"a", "&", "<", "\n"}

InitPdf ==
    /\ pc = "pdf_start"
    /\ company_name \in BoundedSeq(MarkupAlphabet, MaxArg)
    /\ event_title \in BoundedSeq(MarkupAlphabet, MaxArg)
    /\ event_date \in BoundedSeq(MarkupAlphabet, MaxArg)
    /\ transcript_text \in BoundedSeq(PdfTextAlphabet, MaxPdfText)
    /\ paragraphs = <<>>
    /\ story = <<>>
    /\ pdf_data = Idle
    /\ logged = <<>>
    /\ IdleTranscript /\ IdleFormat /\ IdleKey

\* lines 340-388: the empty check, the header paragraph, the split
PdfHeader ==
    /\ pc = "pdf_start"
    /\ IF transcript_text = <<>>
       THEN /\ pdf_data' = Return(<<>>)
            /\ logged' = Append(logged, LogEntry("empty", <<>>))
            /\ pc' = "pdf_done"
            /\ UNCHANGED <<story, paragraphs>>
       ELSE \E laidOut \in BOOLEAN :
                IF laidOut
                THEN /\ story' = <<Paragraph(HeaderText(company_name,
                                        event_title, event_date), "CustomHeader"),
                                   Spacer(30)>>
                     /\ paragraphs' = Split(transcript_text, <<"\n", "\n">>)
                     /\ pc' = "pdf_body"
                     /\ UNCHANGED <<pdf_data, logged>>
                ELSE /\ pdf_data' = Raise("LayoutError")
                     /\ pc' = "pdf_done"
                     /\ UNCHANGED <<story, paragraphs, logged>>
    /\ UNCHANGED <<transcript_text, eventVars>>
    /\ UNCHANGED <<transcriptVars, formatVars, keyVars>>

\* lines 389-398: one turn of the loop over the paragraphs
PdfParagraph ==
    /\ pc = "pdf_body"
    /\ paragraphs # <<>>
    /\ LET para == Head(paragraphs)
       IN  IF Strip(para) # <<>>
           THEN \E laidOut \in BOOLEAN :
                    IF laidOut
                    THEN /\ story' = story \o <<Paragraph(Escape(Strip(para)),
                                                          "CustomText"),
                                                Spacer(6)>>
                         /\ UNCHANGED logged
                    ELSE /\ logged' = Append(logged,
                                LogEntry("paragraph", Escape(Strip(para))))
                         /\ UNCHANGED story
           ELSE UNCHANGED <<story, logged>>
    /\ paragraphs' = Tail(paragraphs)
    /\ UNCHANGED <<pc, pdf_data, transcript_text, eventVars>>
    /\ UNCHANGED <<transcriptVars, formatVars, keyVars>>

\* lines 400-407: doc.build(story)
PdfBuild ==
    /\ pc = "pdf_body"
    /\ paragraphs = <<>>
    /\ \E built \in BOOLEAN :
           IF built
           THEN pdf_data' = Return(story) /\ UNCHANGED logged
           ELSE /\ pdf_data' = Return(<<>>)
                /\ logged' = Append(logged, LogEntry("build", <<>>))
    /\ pc' = "pdf_done"
    /\ UNCHANGED <<story, paragraphs, transcript_text, eventVars>>
    /\ UNCHANGED <<transcriptVars, formatVars, keyVars>>

NextPdf == PdfHeader \/ PdfParagraph \/ PdfBuild

SpecPdf == InitPdf /\ [][NextPdf]_vars

(***************************************************************************)
(* SupabaseStorageHandler.create_filename and S3Handler.create_filename    *)
(***************************************************************************)
UpperCase == <<"A", "B", "C", "D", "E", "F", "G", "H", "I", "J", "K", "L", "M",
               "N", "O", "P", "Q", "R", "S", "T", "U", "V", "W", "X", "Y", "Z">>
LowerCase == <<"a", "b", "c", "d", "e", "f", "g", "h", "i", "j", "k", "l", "m",
               "n", "o", "p", "q", "r", "s", "t", "u", "v", "w", "x", "y", "z">>

\* s.lower()
Lower(s) ==
    [i \in 1..Len(s) |->
        IF \E k \in 1..26 : UpperCase[k] = s[i]
        THEN LowerCase[CHOOSE k \in 1..26 : UpperCase[k] = s[i]]
        ELSE s[i]]

\* the highest index of character c in s, 0 if there is none
LastIndex(s, c) ==
    IF \E i \in 1..Len(s) : s[i] = c
    THEN CHOOSE i \in 1..Len(s) : s[i] = c /\ \A j \in (i + 1)..Len(s) : s[j] # c
    ELSE 0

\* os.path.splitext(p)[1]: from the last dot of the last path component,
\* unless that component has only dots before it
SplitExt(p) ==
    LET sep == LastIndex(p, "/")
        dot == LastIndex(p, ".")
    IN  IF dot > sep /\ \E i \in (sep + 1)..(dot - 1) : p[i] # "."
        THEN Drop(p, dot) ELSE <<>>

Transcript == <<"t", "r", "a", "n", "s", "c", "r", "i", "p", "t">>
Slides == <<"s", "l", "i", "d", "e", "s">>
Pdf == <<"p", "d", "f">>

SupabaseFilename(company, date, title, type, original) ==
    LET safe_company ==
            Replace(Replace(Lower(company), <<" ">>, <<"_">>), <<"-">>, <<"_">>)
        safe_date == Replace(date, <<"-">>, <<>>)
        ext == IF SplitExt(original) = <<>> THEN <<".">> \o Pdf
               ELSE SplitExt(original)
    IN  safe_company \o <<"/">> \o type \o <<"/">> \o safe_company \o <<"_">>
            \o safe_date \o <<"_">> \o type \o ext

S3Filename(company, date, title, type, original) ==
    LET clean_company ==
            Lower(Replace(Replace(company, <<" ">>, <<"_">>), <<"/">>, <<"_">>))
        clean_event == Lower(Replace(title, <<" ">>, <<"_">>))
        clean_date == Split(date, <<"T">>)[1]
        stripped == IF \E i \in 1..Len(original) : original[i] = "?"
                    THEN Split(original, <<"?">>)[1] ELSE original
        pieces == Split(stripped, <<".">>)
        file_extension == IF type = Transcript THEN Pdf
                          ELSE Lower(pieces[Len(pieces)])
    IN  clean_company \o <<"_">> \o clean_date \o <<"_">> \o clean_event
            \o <<"_">> \o type \o <<".">> \o file_extension

\* 2024-01-05 and 2024-01-05T10:00:00Z
EventDates ==
    {<<"2", "0", "2", "4", "-", "0", "1", "-", "0", "5">>,
     <<"2", "0", "2", "4", "-", "0", "1", "-", "0", "5", "T", "1", "0", ":",
       "0", "0", ":", "0", "0", "Z">>}

NameAlphabet == {"A", "b", " ", "-", "/", "?"}
FileAlphabet == {"f", "D", ".", "?", "/"}

InitKey ==
    /\ pc = "create_filename"
    /\ handler \in {"SupabaseStorageHandler", "S3Handler"}
    /\ company_name \in BoundedSeq(NameAlphabet, MaxName)
    /\ event_title \in BoundedSeq(NameAlphabet, MaxName)
    /\ event_date \in EventDates
    /\ doc_type \in {Transcript, Slides}
    /\ original_filename \in BoundedSeq(FileAlphabet, MaxFile)
    /\ filename = Idle
    /\ IdleTranscript /\ IdleFormat /\ IdlePdf

SupabaseCreateFilename ==
    /\ pc = "create_filename"
    /\ handler = "SupabaseStorageHandler"
    /\ filename' = SupabaseFilename(company_name, event_date, event_title,
                                    doc_type, original_filename)
    /\ pc' = "filename_done"
    /\ UNCHANGED <<handler, doc_type, original_filename, eventVars>>
    /\ UNCHANGED <<transcriptVars, formatVars, pdfVars>>

S3CreateFilename ==
    /\ pc = "create_filename"
    /\ handler = "S3Handler"
    /\ filename' = S3Filename(company_name, event_date, event_title,
                              doc_type, original_filename)
    /\ pc' = "filename_done"
    /\ UNCHANGED <<handler, doc_type, original_filename, eventVars>>
    /\ UNCHANGED <<transcriptVars, formatVars, pdfVars>>

NextKey == SupabaseCreateFilename \/ S3CreateFilename

SpecKey == InitKey /\ [][NextKey]_vars

(***************************************************************************)
(* The whole module: any one of the calls above.                           *)
(***************************************************************************)
Init == InitFormat \/ InitTranscript \/ InitPdf \/ InitKey

Next == NextFormat \/ NextTranscript \/ NextPdf \/ NextKey

Spec == Init /\ [][Next]_vars

(***************************************************************************)
(* Claims about process_transcript and get_document.                       *)
(***************************************************************************)
\* the direct URL of the event, present and non-empty
HasDirectUrl ==
    transcripts.transcriptUrl # <<>> /\ transcripts.transcriptUrl[1] # <<>>

\* the finished live transcript URL of the event, present and non-empty
HasLiveUrl ==
    /\ transcripts.liveTranscripts # <<>>
    /\ transcripts.liveTranscripts[1].finishedLiveTranscriptUrl # <<>>
    /\ transcripts.liveTranscripts[1].finishedLiveTranscriptUrl[1] # <<>>

\* the second-to-last '/'-separated segment of the page URL, <<>> if none
PageSegment ==
    LET segs == Split(transcript_url, <<"/">>)
    IN  IF Len(segs) < 2 THEN <<>> ELSE segs[Len(segs) - 1]

\* C1, for a given reading of "the third source is populated": every
\* request goes to the source of highest priority that is present (direct
\* URL, then live URL, then the endpoint derived from the page URL's
\* numeric segment); when the run is over the chosen source has been
\* requested, and when no source is present nothing was requested and ''
\* is returned.
SourcePriority(hasPageId) ==
    pc \in {"resolve", "api_get", "raw_get", "done"} =>
        /\ \A i \in 1..Len(requests) :
              requests[i].url =
                  IF HasDirectUrl THEN transcripts.transcriptUrl[1]
                  ELSE IF HasLiveUrl
                  THEN transcripts.liveTranscripts[1].finishedLiveTranscriptUrl[1]
                  ELSE Url(ApiHost, <<"/", "public", "/", "v1", "/",
                              "transcripts", "/", "document", "/">>)
                          \o PageSegment
        /\ \A i \in 1..Len(requests) :
              (~HasDirectUrl /\ ~HasLiveUrl) => hasPageId
        /\ pc = "done" =>
              /\ (HasDirectUrl \/ HasLiveUrl \/ hasPageId) => requests # <<>>
              /\ ~(HasDirectUrl \/ HasLiveUrl \/ hasPageId) =>
                    requests = <<>> /\ result = Return(<<>>)

\* C1 (as claimed): the third source is populated when the second-to-last
\* segment of transcript_url is numeric.
C1_AsClaimed == SourcePriority(IsDigit(PageSegment))

\* C1 (amended): the third source is populated when transcript_url
\* contains app.quartr.com and its second-to-last segment is numeric; the
\* priority order, the request to the derived endpoint and the empty
\* result without any request otherwise are as claimed.
C1_SourcePriority ==
    SourcePriority(Contains(transcript_url, AppHost) /\ IsDigit(PageSegment))

C1_Witness ==
    /\ pc = "done"
    /\ ~HasDirectUrl /\ ~HasLiveUrl
    /\ Host(transcript_url) = AppHost
    /\ transcripts.liveTranscripts # <<>>
    /\ requests # <<>>
    /\ requests[1].url = ApiDocumentUrl(<<"7", "7">>)

\* a 200 response from which some non-empty text can be taken
CarriesText(r) ==
    /\ r.status = 200
    /\ \/ r.body.kind = "text" /\ r.body.raw # <<>>
       \/ /\ r.body.kind = "json"
          /\ \/ /\ r.body.data.transcript # <<>>
                /\ r.body.data.transcript[1].text # <<>>
                /\ r.body.data.transcript[1].text[1] # <<>>
             \/ r.body.data.text # <<>> /\ r.body.data.text[1] # <<>>

\* C2 (as claimed): process_transcript never raises, and returns a
\* non-empty string only when a fetch returned 200 and a non-empty text was
\* extracted from it; otherwise it returns ''.
C2_EmptyUnlessText ==
    pc = "done" =>
        /\ result.kind = "return"
        /\ result.value # <<>> =>
              \E i \in 1..Len(responses) : CarriesText(responses[i])
        /\ (requests # <<>> /\ responses[Len(responses)].status # 200) =>
              result.value = <<>>

\* C3 (as claimed): a 200 response yields the formatted transcript.text
\* when that is non-empty, else the formatted top-level text when that is
\* non-empty, and the formatted raw body when the body is not JSON.
C3_ExtractionOrder ==
    (pc = "done" /\ requests # <<>>
       /\ responses[Len(responses)].status = 200) =>
        LET body == responses[Len(responses)].body
            nested == IF body.data.transcript = <<>> THEN <<>>
                      ELSE IF body.data.transcript[1].text = <<>> THEN <<>>
                      ELSE body.data.transcript[1].text[1]
        IN  /\ (body.kind = "json" /\ nested # <<>>) =>
                  result = Return(format_transcript_text(nested))
            /\ (body.kind = "json" /\ nested = <<>>
                  /\ body.data.text # <<>> /\ body.data.text[1] # <<>>) =>
                  result = Return(format_transcript_text(body.data.text[1]))
            /\ (body.kind = "text" /\ body.raw # <<>>) =>
                  result = Return(format_transcript_text(body.raw))

\* C4 (as claimed): a request carries the X-Api-Key header only when its
\* host is api.quartr.com.
C4_KeyOnlyToApiHost ==
    \A i \in 1..Len(requests) :
        ApiKeyHeader \in requests[i].headers => Host(requests[i].url) = ApiHost

\* C12 (as claimed): one call of process_transcript issues at most one
\* HTTP request; after a fetch that yielded no text nothing more is
\* requested before '' is returned.
C12_AtMostOneRequest ==
    pc \in {"resolve", "api_get", "raw_get", "done"} => Len(requests) <= 1

(***************************************************************************)
(* Claims about create_pdf.                                                *)
(***************************************************************************)
\* no raw '<' or '>', and every '&' starts one of the three entities
WellEscaped(m) ==
    \A i \in 1..Len(m) :
        /\ m[i] \notin {"<", ">"}
        /\ m[i] = "&" =>
              \/ i + 4 <= Len(m) /\ SubSeq(m, i, i + 4) = <<"&", "a", "m", "p", ";">>
              \/ i + 3 <= Len(m) /\ SubSeq(m, i, i + 3) = <<"&", "l", "t", ";">>
              \/ i + 3 <= Len(m) /\ SubSeq(m, i, i + 3) = <<"&", "g", "t", ";">>

\* what the layout engine reads the escaped text as
Unescape(m) ==
    Replace(Replace(Replace(m, <<"&", "l", "t", ";">>, <<"<">>),
                    <<"&", "g", "t", ";">>, <<">">>),
            <<"&", "a", "m", "p", ";">>, <<"&">>)

\* the tokens of m strictly between its tokens a and b
Between(m, a, b) ==
    LET i == CHOOSE k \in 1..Len(m) : m[k] = a
        j == CHOOSE k \in 1..Len(m) : m[k] = b
    IN  SubSeq(m, i + 1, j - 1)

\* C8 (as claimed): company_name, event_title, event_date and every body
\* paragraph reach the layout engine escaped exactly once: the markup holds
\* no raw '<', '>' or '&' of a caller argument and reads back as the
\* argument.
C8_AllEscaped ==
    pc \in {"pdf_body", "pdf_done"} =>
        \A k \in 1..Len(story) :
            story[k].type = "Paragraph" =>
                IF story[k].style = "CustomHeader"
                THEN LET m == story[k].text
                         c == Between(m, HeaderOpen, HeaderEvent)
                         t == Between(m, HeaderEvent, HeaderDate)
                         d == Between(m, HeaderDate, HeaderClose)
                     IN  /\ WellEscaped(c) /\ Unescape(c) = company_name
                         /\ WellEscaped(t) /\ Unescape(t) = event_title
                         /\ WellEscaped(d) /\ Unescape(d) = event_date
                ELSE /\ WellEscaped(story[k].text)
                     /\ \E j \in 1..Len(Split(transcript_text, <<"\n", "\n">>)) :
                           Unescape(story[k].text) =
                               Strip(Split(transcript_text, <<"\n", "\n">>)[j])

RECURSIVE IsMerge(_, _, _)
\* c is a and b interleaved, each in its own order
IsMerge(a, b, c) ==
    IF c = <<>> THEN a = <<>> /\ b = <<>>
    ELSE \/ a # <<>> /\ Head(a) = Head(c) /\ IsMerge(Tail(a), b, Tail(c))
         \/ b # <<>> /\ Head(b) = Head(c) /\ IsMerge(a, Tail(b), Tail(c))

\* the markup of the non-blank paragraphs of transcript_text, in order
BodyMarkup ==
    LET pieces == Split(transcript_text, <<"\n", "\n">>)
        kept == SelectSeq(pieces, LAMBDA x : Strip(x) # <<>>)
    IN  [i \in 1..Len(kept) |-> Escape(Strip(kept[i]))]

\* the markup of the body paragraphs in the story, in order
LaidOut ==
    LET body == SelectSeq(story, LAMBDA f : f.type = "Paragraph"
                                              /\ f.style = "CustomText")
    IN  [i \in 1..Len(body) |-> body[i].text]

\* the markup of the paragraphs logged as failed, in order
Skipped ==
    LET failed == SelectSeq(logged, LAMBDA e : e.what = "paragraph")
    IN  [i \in 1..Len(failed) |-> failed[i].text]

BuildFailed == \E i \in 1..Len(logged) : logged[i].what = "build"

\* C11 (as claimed): create_pdf returns a byte sequence whatever layout
\* step fails (header paragraph, a body paragraph, the final build); a
\* failed body paragraph alone is skipped and the others keep their order;
\* a failed build returns the empty byte sequence.
C11_NoLayoutFailureEscapes ==
    pc = "pdf_done" =>
        /\ pdf_data.kind = "return"
        /\ transcript_text # <<>> => IsMerge(LaidOut, Skipped, BodyMarkup)
        /\ BuildFailed => pdf_data.value = <<>>
        /\ (transcript_text # <<>> /\ ~BuildFailed) => pdf_data.value = story

(***************************************************************************)
(* Claims about create_filename.                                           *)
(***************************************************************************)
EndsWith(s, suffix) ==
    Len(s) >= Len(suffix) /\ SubSeq(s, Len(s) - Len(suffix) + 1, Len(s)) = suffix

\* original_filename without its query string
WithoutQuery(f) == Split(f, <<"?">>)[1]

\* C9 (as claimed): with doc_type 'transcript' the key of either handler
\* ends in '.pdf'; with another doc_type it ends in the extension of
\* original_filename without its query string (compared without case).
C9_Extension ==
    pc = "filename_done" =>
        IF doc_type = Transcript
        THEN EndsWith(filename, <<".">> \o Pdf)
        ELSE SplitExt(WithoutQuery(original_filename)) # <<>> =>
                EndsWith(Lower(filename),
                         Lower(SplitExt(WithoutQuery(original_filename))))

KeyCharacters ==
    {LowerCase[k] : k \in 1..26} \cup Digits \cup {"_", "-", ".", "/"}

\* C10 (as claimed): a key holds only lowercase letters, digits, '_', '-',
\* '.' and the '/' separators of its template: two for the Supabase key,
\* none for the S3 key.
C10_Sanitized ==
    pc = "filename_done" =>
        /\ \A i \in 1..Len(filename) : filename[i] \in KeyCharacters
        /\ Cardinality({i \in 1..Len(filename) : filename[i] = "/"}) =
              IF handler = "SupabaseStorageHandler" THEN 2 ELSE 0

(***************************************************************************)
(* Claims about format_transcript_text.                                    *)
(***************************************************************************)
HasPair(s, a, b) == \E i \in 1..(Len(s) - 1) : s[i] = a /\ s[i + 1] = b

\* the text with every backslash-n pair read as a line break, scanning
\* from the left over positions instead of rewriting the string
RECURSIVE UnescapeFrom(_, _)
UnescapeFrom(s, i) ==
    IF i > Len(s) THEN <<>>
    ELSE IF i < Len(s) /\ s[i] = "\\" /\ s[i + 1] = "n"
         THEN <<"\n">> \o UnescapeFrom(s, i + 2)
         ELSE <<s[i]>> \o UnescapeFrom(s, i + 1)

\* the sentences of a text, taken the other way round: split on '.'
\* first, then collapse the whitespace of each piece, then drop the blanks
SentencesOf(s) ==
    LET pieces == Split(UnescapeFrom(s, 1), <<".">>)
    IN  SelectNonEmpty([i \in 1..Len(pieces) |->
                            Join(SplitWs(pieces[i]), <<" ">>)])

Hello == <<"a", ".", " ", "n", ".">>
HelloFormatted == <<"a", ".", "\n", "\n", "n", ".">>

\* C5: format_transcript_text returns the non-blank '.'-separated
\* segments of the unescaped, whitespace-collapsed text, each trimmed,
\* joined by '.' and two line breaks, with one trailing '.'; the output
\* holds no backslash-n pair and no whitespace run inside a sentence;
\* 'a. n.' gives 'a.\n\nn.'; a text without periods gives the whole
\* collapsed text plus one trailing period.
C5_FormatExact ==
    pc = "formatted" =>
        /\ formatted_text =
               Join(SentencesOf(text), <<".", "\n", "\n">>) \o <<".">>
        /\ ~HasPair(formatted_text, "\\", "n")
        /\ \A i \in 1..(Len(formatted_text) - 1) :
               formatted_text[i] \in Whitespace =>
                   \/ formatted_text[i + 1] \notin Whitespace
                   \/ (i > 1 /\ formatted_text[i - 1] = "."
                              /\ formatted_text[i] = "\n"
                              /\ formatted_text[i + 1] = "\n")
        /\ (text = Hello => formatted_text = HelloFormatted)
        /\ (\A i \in 1..Len(text) : text[i] # ".") =>
               formatted_text =
                   Join(SplitWs(UnescapeFrom(text, 1)), <<" ">>) \o <<".">>

C5_Witness ==
    /\ pc = "formatted"
    /\ text = <<"a", "\\", "n", ".", " ">>
    /\ formatted_text = <<"a", ".">>

\* C6 (as claimed): a text of only whitespace and periods, the empty text
\* included, is formatted to the empty string.
C6_BlankGivesEmpty ==
    (pc = "formatted" /\ \A i \in 1..Len(text) : text[i] \in Whitespace \cup {"."})
        => formatted_text = <<>>

\* C7: formatting the output of format_transcript_text returns it
\* unchanged.
C7_Idempotent == pc = "reformatted" => reformatted_text = formatted_text

C7_Witness ==
    /\ pc = "reformatted"
    /\ text = <<"a", ".", "\\", "n", "a">>
    /\ formatted_text = <<"a", ".", "\n", "\n", "a", ".">>
    /\ reformatted_text = formatted_text

====
